---- MODULE Spec2Model ----
(***************************************************************************)
(* Krida - Conway's Game of Life (ggez).  State machine of MainState and   *)
(* of its EventHandler callbacks, from src/src/game.rs.  Durations are in  *)
(* milliseconds.  Grids are indexed grid[y][x] as in the source.           *)
(***************************************************************************)
EXTENDS Integers, Sequences, FiniteSets, TLC

\* ---- bounds of the model ------------------------------------------------
\* Grid dimensions, scaled down from 120 x 90 (game.rs:10-11).
GRID_WIDTH == 5
GRID_HEIGHT == 5
\* Width of usize in bits, scaled down from 64.
USIZE_BITS == 8
\* Largest update_delay (ms) the model lets increase_update_delay reach.
MaxDelay == 200
\* Largest number of update_grid calls in one run.
MaxGen == 8
\* Largest number of key or mouse events in one run that write the grid.
MaxEdits == 1
\* Largest number of grid writes (update_grid calls and edits together) in a
\* run of Spec, which interleaves them with the timing keys.
MaxMixed == 1

\* ---- program constants ---------------------------------------------------
CELL_SIZE == 15
DEFAULT_UPDATE_DELAY_MILISECONDS == 100
DEFAULT_UPDATE_DELAY == DEFAULT_UPDATE_DELAY_MILISECONDS
\* Duration::from_millis(10) and Duration::from_millis(100) of the step guards.
STEP_UNIT == 10
STEP_MAX == 100

USIZE_MAX == 2^USIZE_BITS - 1

VARIABLES
    grid,                 \* MainState.grid: Vec<Vec<bool>>, grid[y][x]
    next_grid,            \* MainState.next_grid
    paused,               \* MainState.paused
    update_delay,         \* MainState.update_delay (ms)
    change_update_delay,  \* MainState.change_update_delay (ms)
    status,               \* "running", "quit" (request_quit) or "panicked"
    last,                 \* <<method that ran last, its x, its y>>
    generation,           \* number of update_grid calls since new()
    edits                 \* number of events since new() that wrote the grid

vars == <<grid, next_grid, paused, update_delay, change_update_delay,
          status, last, generation, edits>>

Rows == 0 .. (GRID_HEIGHT - 1)
Cols == 0 .. (GRID_WIDTH - 1)

\* vec![vec![false; GRID_WIDTH]; GRID_HEIGHT]
EmptyGrid == [y \in Rows |-> [x \in Cols |-> FALSE]]

\* The seed with its indices read as grid[x][y].
SeedCells_Transposed == { <<1, 2>>, <<2, 3>>, <<3, 1>>, <<3, 2>>, <<3, 3>> }

\* The cells MainState::new sets alive, as <<x, y>>.
SeedCells == { <<2, 1>>, <<3, 2>>, <<1, 3>>, <<2, 3>>, <<3, 3>> }

GridOf(cells) == [y \in Rows |-> [x \in Cols |-> <<x, y>> \in cells]]

LiveCells(g) == { c \in Cols \X Rows : g[c[2]][c[1]] }

\* ---- MainState::live_neighbor_count -------------------------------------
\* usize::wrapping_sub(1)
wrapping_sub_1(x) == (x - 1) % (USIZE_MAX + 1)

ThreeAround(x) == << wrapping_sub_1(x), x, x + 1 >>

\* One iteration of the inner loop body, for row index i and column index j.
NeighborTerm(g, i, j, x, y) ==
    IF i >= GRID_HEIGHT THEN 0
    ELSE IF j >= GRID_WIDTH \/ (i = y /\ j = x) THEN 0
    ELSE IF g[i][j] THEN 1 ELSE 0

RECURSIVE NeighborLoop(_, _, _, _)
\* The two nested for-loops, flattened: k runs over the 9 (i, j) pairs.
NeighborLoop(g, x, y, k) ==
    IF k = 0 THEN 0
    ELSE NeighborLoop(g, x, y, k - 1)
         + NeighborTerm(g, ThreeAround(y)[((k - 1) \div 3) + 1],
                           ThreeAround(x)[((k - 1) % 3) + 1], x, y)

live_neighbor_count(g, x, y) == NeighborLoop(g, x, y, 9)

\* ---- MainState::update_grid ---------------------------------------------
\* The match on (self.grid[y][x], live_neighbors).
Rule_BirthOnTwo(alive, n) ==
    IF alive /\ (n = 2 \/ n = 3) THEN TRUE
    ELSE IF ~alive /\ (n = 2 \/ n = 3) THEN TRUE
    ELSE FALSE

Rule(alive, n) ==
    IF alive /\ (n = 2 \/ n = 3) THEN TRUE
    ELSE IF ~alive /\ n = 3 THEN TRUE
    ELSE FALSE

RECURSIVE FillLoop_OnlyBirths(_, _, _)
\* The pass writing only the cells that come out alive, leaving the others
\* of the buffer as they were.
FillLoop_OnlyBirths(g, ng, k) ==
    IF k = GRID_WIDTH * GRID_HEIGHT THEN <<g, ng>>
    ELSE LET y == k \div GRID_WIDTH
             x == k % GRID_WIDTH
             v == Rule(g[y][x], live_neighbor_count(g, x, y))
         IN FillLoop_OnlyBirths(g, IF v THEN [ng EXCEPT ![y][x] = TRUE] ELSE ng, k + 1)

RECURSIVE FillLoop(_, _, _)
\* for y in 0..GRID_HEIGHT { for x in 0..GRID_WIDTH { next_grid[y][x] = ... } }
\* from cell number k on; yields <<grid, next_grid>> after the loops.
FillLoop(g, ng, k) ==
    IF k = GRID_WIDTH * GRID_HEIGHT THEN <<g, ng>>
    ELSE LET y == k \div GRID_WIDTH
             x == k % GRID_WIDTH
             v == Rule(g[y][x], live_neighbor_count(g, x, y))
         IN FillLoop(g, [ng EXCEPT ![y][x] = v], k + 1)

RECURSIVE InPlaceLoop(_, _)
\* The pass done in place: each result is written into the grid that the
\* following cells read.
InPlaceLoop(g, k) ==
    IF k = GRID_WIDTH * GRID_HEIGHT THEN g
    ELSE LET y == k \div GRID_WIDTH
             x == k % GRID_WIDTH
             v == Rule(g[y][x], live_neighbor_count(g, x, y))
         IN InPlaceLoop([g EXCEPT ![y][x] = v], k + 1)

update_grid_InPlace(g, ng) == <<InPlaceLoop(g, 0), g>>

\* The loops, then the buffer copied into the grid instead of swapped.
update_grid_Copy(g, ng) ==
    LET r == FillLoop(g, ng, 0) IN <<r[2], r[2]>>

\* The loops, then std::mem::swap(&mut self.grid, &mut self.next_grid);
\* yields <<grid, next_grid>> after the call.
update_grid(g, ng) ==
    LET r == FillLoop(g, ng, 0) IN <<r[2], r[1]>>

\* ---- MainState::toggle_pause --------------------------------------------
\* The flag set instead of flipped.
toggle_pause_SetOnly(p) == TRUE

toggle_pause(p) == ~p

\* ---- MainState::toggle_cell ---------------------------------------------
\* Indexing a Vec outside its length panics.
InVec(g, x, y) == y \in DOMAIN g /\ x \in DOMAIN g[y]

\* The guard written with <= : the first index past the end passes it.
toggle_guard_OffByOne(x, y) == x <= GRID_WIDTH /\ y <= GRID_HEIGHT

toggle_guard(x, y) == x < GRID_WIDTH /\ y < GRID_HEIGHT

\* The body indexing grid[x][y] instead of grid[y][x].
toggle_cell_Transposed(g, x, y) ==
    IF toggle_guard(x, y)
    THEN IF InVec(g, y, x)
         THEN << [g EXCEPT ![x][y] = ~g[x][y]], FALSE >>
         ELSE << g, TRUE >>
    ELSE << g, FALSE >>

\* Yields <<grid, panicked>>.
toggle_cell(g, x, y) ==
    IF toggle_guard(x, y)
    THEN IF InVec(g, x, y)
         THEN << [g EXCEPT ![y][x] = ~g[y][x]], FALSE >>
         ELSE << g, TRUE >>
    ELSE << g, FALSE >>

\* ---- timing methods ------------------------------------------------------
\* The upper clamp left out.
increase_update_delay_step_NoClamp(step) == step + STEP_UNIT

decrease_update_delay_step(step) ==
    IF step > STEP_UNIT THEN step - STEP_UNIT ELSE step

\* The guard written with <= : one more step is taken at the maximum.
increase_update_delay_step_OffByOne(step) ==
    IF step <= STEP_MAX THEN step + STEP_UNIT ELSE step

increase_update_delay_step(step) ==
    IF step < STEP_MAX THEN step + STEP_UNIT ELSE step

increase_update_delay(delay, step) == delay + step

\* Only the first half of the guard: any delay above the default is lowered.
decrease_update_delay_NoFloor(delay, step) ==
    IF delay > DEFAULT_UPDATE_DELAY
    THEN IF delay < step THEN << delay, TRUE >> ELSE << delay - step, FALSE >>
    ELSE << delay, FALSE >>

\* The second half of the guard written with >= .
decrease_update_delay_AtFloor(delay, step) ==
    IF delay > DEFAULT_UPDATE_DELAY
    THEN IF delay < step
         THEN << delay, TRUE >>
         ELSE IF (delay - step) >= DEFAULT_UPDATE_DELAY
              THEN << delay - step, FALSE >>
              ELSE << delay, FALSE >>
    ELSE << delay, FALSE >>

\* Duration - Duration panics when the result would be negative.
\* Yields <<update_delay, panicked>>.
decrease_update_delay(delay, step) ==
    IF delay > DEFAULT_UPDATE_DELAY
    THEN IF delay < step
         THEN << delay, TRUE >>
         ELSE IF (delay - step) > DEFAULT_UPDATE_DELAY
              THEN << delay - step, FALSE >>
              ELSE << delay, FALSE >>
    ELSE << delay, FALSE >>

\* Only update_delay is restored.
reset_update_delay_DelayOnly(delay, step) == << DEFAULT_UPDATE_DELAY, step >>

\* Yields <<update_delay, change_update_delay>>.
reset_update_delay(delay, step) == << DEFAULT_UPDATE_DELAY, DEFAULT_UPDATE_DELAY >>

\* ---- inputs --------------------------------------------------------------
\* (x / CELL_SIZE) as usize, for a pixel coordinate: the cast saturates,
\* so a negative quotient gives 0 and a huge one usize::MAX.
PixelToCell(p) ==
    IF p < 0 THEN 0
    ELSE IF p \div CELL_SIZE > USIZE_MAX THEN USIZE_MAX
    ELSE p \div CELL_SIZE

\* The mouse events the model draws from, as <<button, x, y>> in pixels:
\* a left click in the first cell, in the last cell, left of the window,
\* right of it and below it, and a click of another button.
ClickEvents ==
    { << "Left", 7, 7 >>,
      << "Left", (GRID_WIDTH - 1) * CELL_SIZE + 7, (GRID_HEIGHT - 1) * CELL_SIZE + 7 >>,
      << "Left", -4, CELL_SIZE + 7 >>,
      << "Left", GRID_WIDTH * CELL_SIZE, 7 >>,
      << "Left", 7, GRID_HEIGHT * CELL_SIZE >>,
      << "Right", 7, 7 >> }

\* The outcomes of randomize and randomize_sparse the model draws from
\* (every grid is a possible outcome of both): the two outer columns alive
\* in rows 1 to 3, and a full grid.
RandomGrids ==
    { GridOf({0, GRID_WIDTH - 1} \X {1, 2, 3}),
      GridOf(Cols \X Rows) }

\* ---- MainState::new ------------------------------------------------------
Init ==
    /\ grid = GridOf(SeedCells)
    /\ next_grid = EmptyGrid
    /\ paused = TRUE
    /\ update_delay = DEFAULT_UPDATE_DELAY
    /\ change_update_delay = DEFAULT_UPDATE_DELAY
    /\ status = "running"
    /\ last = << "new", 0, 0 >>
    /\ generation = 0
    /\ edits = 0

Timing == << update_delay, change_update_delay >>
Grids == << grid, next_grid >>
Counters == << generation, edits >>

\* ---- EventHandler::update ------------------------------------------------
\* The condition with the negation lost.
update_guard_Inverted(p) == p

\* if !self.paused
update_guard(p) == ~p

Update ==
    /\ status = "running"
    /\ IF update_guard(paused)
       THEN /\ generation < MaxGen
            /\ LET r == update_grid(grid, next_grid)
               IN /\ grid' = r[1]
                  /\ next_grid' = r[2]
            /\ generation' = generation + 1
       ELSE UNCHANGED << grid, next_grid, generation >>
    /\ last' = << "update", 0, 0 >>
    /\ UNCHANGED << paused, Timing, status, edits >>

\* ---- EventHandler::mouse_button_down_event -------------------------------
MouseButtonDown ==
    /\ status = "running"
    /\ \E ev \in ClickEvents :
         IF ev[1] = "Left"
         THEN LET grid_x == PixelToCell(ev[2])
                  grid_y == PixelToCell(ev[3])
                  r == toggle_cell(grid, grid_x, grid_y)
              IN /\ r[1] # grid => edits < MaxEdits
                 /\ grid' = r[1]
                 /\ status' = IF r[2] THEN "panicked" ELSE status
                 /\ last' = << "toggle_cell", grid_x, grid_y >>
                 /\ edits' = IF r[1] # grid THEN edits + 1 ELSE edits
         ELSE UNCHANGED << grid, status, last, edits >>
    /\ UNCHANGED << next_grid, paused, Timing, generation >>

\* ---- EventHandler::key_down_event ----------------------------------------
\* KeyCode::Space
KeySpace ==
    /\ status = "running"
    /\ paused' = toggle_pause(paused)
    /\ last' = << "toggle_pause", 0, 0 >>
    /\ UNCHANGED << Grids, Timing, status, Counters >>

\* The key acting only while paused.
KeyC_OnlyWhilePaused ==
    /\ status = "running"
    /\ edits < MaxEdits
    /\ grid' = IF paused THEN EmptyGrid ELSE grid
    /\ edits' = edits + 1
    /\ last' = << "clear", 0, 0 >>
    /\ UNCHANGED << next_grid, paused, Timing, status, generation >>

\* The key clearing the buffer instead of the grid.
KeyC_ClearsBuffer ==
    /\ status = "running"
    /\ edits < MaxEdits
    /\ next_grid' = EmptyGrid
    /\ edits' = edits + 1
    /\ last' = << "clear", 0, 0 >>
    /\ UNCHANGED << grid, paused, Timing, status, generation >>

\* KeyCode::C
KeyC ==
    /\ status = "running"
    /\ edits < MaxEdits
    /\ grid' = EmptyGrid
    /\ edits' = edits + 1
    /\ last' = << "clear", 0, 0 >>
    /\ UNCHANGED << next_grid, paused, Timing, status, generation >>

\* KeyCode::Escape
KeyEscape ==
    /\ status = "running"
    /\ status' = "quit"
    /\ last' = << "request_quit", 0, 0 >>
    /\ UNCHANGED << Grids, paused, Timing, Counters >>

\* KeyCode::P
KeyP ==
    /\ status = "running"
    /\ edits < MaxEdits
    /\ \E g \in RandomGrids : grid' = g
    /\ edits' = edits + 1
    /\ last' = << "randomize", 0, 0 >>
    /\ UNCHANGED << next_grid, paused, Timing, status, generation >>

\* KeyCode::R
KeyR ==
    /\ status = "running"
    /\ edits < MaxEdits
    /\ \E g \in RandomGrids : grid' = g
    /\ edits' = edits + 1
    /\ last' = << "randomize_sparse", 0, 0 >>
    /\ UNCHANGED << next_grid, paused, Timing, status, generation >>

\* KeyCode::Up
KeyUp ==
    /\ status = "running"
    /\ increase_update_delay(update_delay, change_update_delay) <= MaxDelay
    /\ update_delay' = increase_update_delay(update_delay, change_update_delay)
    /\ last' = << "increase_update_delay", 0, 0 >>
    /\ UNCHANGED << Grids, paused, change_update_delay, status, Counters >>

\* KeyCode::Down
KeyDown ==
    /\ status = "running"
    /\ LET r == decrease_update_delay(update_delay, change_update_delay)
       IN /\ update_delay' = r[1]
          /\ status' = IF r[2] THEN "panicked" ELSE status
    /\ last' = << "decrease_update_delay", 0, 0 >>
    /\ UNCHANGED << Grids, paused, change_update_delay, Counters >>

\* KeyCode::RShift
KeyRShift ==
    /\ status = "running"
    /\ LET r == reset_update_delay(update_delay, change_update_delay)
       IN /\ update_delay' = r[1]
          /\ change_update_delay' = r[2]
    /\ last' = << "reset_update_delay", 0, 0 >>
    /\ UNCHANGED << Grids, paused, status, Counters >>

\* KeyCode::Right
KeyRight ==
    /\ status = "running"
    /\ change_update_delay' = increase_update_delay_step(change_update_delay)
    /\ last' = << "increase_update_delay_step", 0, 0 >>
    /\ UNCHANGED << Grids, paused, update_delay, status, Counters >>

\* KeyCode::Left
KeyLeft ==
    /\ status = "running"
    /\ change_update_delay' = decrease_update_delay_step(change_update_delay)
    /\ last' = << "decrease_update_delay_step", 0, 0 >>
    /\ UNCHANGED << Grids, paused, update_delay, status, Counters >>

\* Any other key: the `_ => ()` arm.
KeyOther ==
    /\ status = "running"
    /\ UNCHANGED vars

\* ---- specifications ------------------------------------------------------
\* The callbacks that read or write the grid, the pause flag or the quit
\* request: the timing keys are left out.
NextGrid ==
    \/ Update
    \/ MouseButtonDown
    \/ KeySpace
    \/ KeyC
    \/ KeyEscape
    \/ KeyP
    \/ KeyR
    \/ KeyOther

SpecGrid == Init /\ [][NextGrid]_vars

\* Spec lets the grid be written (by update_grid or by an edit) MaxMixed
\* times; Room holds while another write is allowed.
Room == generation + edits < MaxMixed
Shallow == generation + edits <= MaxMixed

\* Every callback, with at most MaxMixed writes of the grid.
Next ==
    \/ (paused \/ Room) /\ Update
    \/ MouseButtonDown /\ Shallow'
    \/ KeySpace
    \/ Room /\ KeyC
    \/ KeyEscape
    \/ Room /\ KeyP
    \/ Room /\ KeyR
    \/ KeyUp
    \/ KeyDown
    \/ KeyRShift
    \/ KeyRight
    \/ KeyLeft
    \/ KeyOther

Spec == Init /\ [][Next]_vars

TypeOK ==
    /\ grid \in [Rows -> [Cols -> BOOLEAN]]
    /\ next_grid \in [Rows -> [Cols -> BOOLEAN]]
    /\ paused \in BOOLEAN
    /\ update_delay \in 0 .. MaxDelay
    /\ change_update_delay \in 0 .. MaxDelay
    /\ status \in { "running", "quit", "panicked" }
    /\ generation \in 0 .. MaxGen
    /\ edits \in 0 .. MaxEdits

\* ======================= properties =======================================

\* The eight cells of the torus around (x, y) that are alive in g.
ToroidalNeighbors(g, x, y) ==
    { d \in ({-1, 0, 1} \X {-1, 0, 1}) \ { <<0, 0>> } :
        g[(y + d[2]) % GRID_HEIGHT][(x + d[1]) % GRID_WIDTH] }

\* C1: the live-neighbor count of every cell (x, y) is the number of live
\* cells among the 8 cells ((x+dx) mod W, (y+dy) mod H) around it.
C1_ToroidalNeighborCount ==
    \A y \in Rows, x \in Cols :
        live_neighbor_count(grid, x, y) = Cardinality(ToroidalNeighbors(grid, x, y))

\* A call of update_grid by the update tick.
Advance == ~paused /\ generation' = generation + 1 /\ Update

\* C2: after update_grid every cell is alive iff it was alive with 2 or 3
\* live neighbors or dead with exactly 3, all counted on the grid before the
\* call.
C2_LifeRuleSimultaneous ==
    [][ Advance =>
          \A y \in Rows, x \in Cols :
              grid'[y][x] <=>
                  \/ grid[y][x] /\ live_neighbor_count(grid, x, y) \in {2, 3}
                  \/ ~grid[y][x] /\ live_neighbor_count(grid, x, y) = 3 ]_vars

C2_Witness ==
    /\ last[1] = "update"
    /\ generation = 1
    /\ edits = 0
    /\ LiveCells(grid) # SeedCells
    /\ LiveCells(next_grid) = SeedCells

\* C3: four update_grid calls from the constructed state leave exactly the
\* five seed cells, each moved by (+1, +1).
C3_GliderAfterFour ==
    (edits = 0 /\ generation = 4) =>
        /\ LiveCells(grid) = { << c[1] + 1, c[2] + 1 >> : c \in SeedCells }
        /\ Cardinality(LiveCells(grid)) = 5

C3_Witness ==
    /\ edits = 0
    /\ generation = 4
    /\ last[1] = "update"
    /\ grid[4][4]

\* C4: update_grid on an all-dead grid leaves an all-dead grid, whatever
\* the buffer holds.
C4_AllDeadFixedPoint ==
    [][ (LiveCells(grid) = {} /\ Advance) => LiveCells(grid') = {} ]_vars

\* An all-dead grid was advanced while the buffer still held live cells:
\* the buffer's old contents are now gone and both grids are dead.
C4_Witness ==
    /\ last[1] = "update"
    /\ edits = 1
    /\ generation >= 2
    /\ LiveCells(grid) = {}
    /\ LiveCells(next_grid) = {}

\* C5: toggle_cell with an in-bounds coordinate flips that cell and no
\* other, and a second call with the same coordinate gives the grid back.
C5_ToggleOwnInverse ==
    [][ \A x \in Cols, y \in Rows :
          (last' = << "toggle_cell", x, y >> /\ MouseButtonDown) =>
              /\ \A j \in Rows, i \in Cols :
                     grid'[j][i] = IF i = x /\ j = y THEN ~grid[j][i] ELSE grid[j][i]
              /\ toggle_cell(grid', x, y)[1] = grid ]_vars

C5_Witness ==
    /\ last = << "toggle_cell", 0, 1 >>
    /\ edits = 1
    /\ grid[1][0]

\* C6: toggle_cell with an out-of-bounds coordinate raises no error and
\* leaves grid, buffer, paused, update_delay and delay_step unchanged.
C6_ToggleOutOfBoundsIgnored ==
    [][ ( /\ last'[1] = "toggle_cell"
          /\ (last'[2] >= GRID_WIDTH \/ last'[3] >= GRID_HEIGHT)
          /\ MouseButtonDown ) =>
              /\ UNCHANGED << grid, next_grid, paused, update_delay, change_update_delay >>
              /\ status' = "running" ]_vars

C6_Witness ==
    /\ last = << "toggle_cell", GRID_WIDTH, 0 >>
    /\ status = "running"
    /\ update_delay > 100

\* C7: update_delay is at least 100 ms in every reachable state.
C7_DelayAtLeastFloor == update_delay >= 100

\* A decrease that the floor rejected, after grid writes and step changes.
C7_Witness ==
    /\ last[1] = "decrease_update_delay"
    /\ update_delay = 110
    /\ change_update_delay = 10
    /\ generation + edits >= 1

\* C8: a decrease subtracts delay_step when update_delay - delay_step is
\* above 100 ms and changes nothing otherwise; it never changes
\* update_delay to a value at or below 100 ms.
C8_DecreaseGuard ==
    [][ KeyDown =>
          /\ update_delay' = IF update_delay - change_update_delay > 100
                             THEN update_delay - change_update_delay
                             ELSE update_delay
          /\ (update_delay' # update_delay => update_delay' > 100)
          /\ status' = status ]_vars

C8_Witness ==
    /\ last[1] = "decrease_update_delay"
    /\ update_delay = 110
    /\ change_update_delay = 90

\* C9: delay_step stays in [10 ms, 100 ms]; a step adjustment changes it by
\* exactly 10 ms, except for an increase at 100 ms and a decrease at 10 ms,
\* which change nothing.
C9_StepClamped ==
    [][ /\ change_update_delay \in 10 .. 100
        /\ change_update_delay' \in 10 .. 100
        /\ KeyRight => change_update_delay' =
                         IF change_update_delay = 100 THEN 100
                         ELSE change_update_delay + 10
        /\ KeyLeft => change_update_delay' =
                         IF change_update_delay = 10 THEN 10
                         ELSE change_update_delay - 10 ]_vars

C9_Witness ==
    /\ last[1] = "decrease_update_delay_step"
    /\ change_update_delay = 10

\* C10: reset sets update_delay and delay_step to 100 ms and leaves the
\* grid and paused unchanged.
C10_ResetRestoresDefaults ==
    [][ KeyRShift =>
          /\ update_delay' = 100
          /\ change_update_delay' = 100
          /\ UNCHANGED << grid, paused >> ]_vars

C10_Witness ==
    /\ last[1] = "reset_update_delay"
    /\ update_delay = 100
    /\ change_update_delay = 100
    /\ generation + edits >= 1

\* C11: the constructed state has paused = true, update_delay and
\* delay_step at 100 ms, an all-dead buffer, and exactly the five cells
\* (2,1), (3,2), (1,3), (2,3), (3,3) alive.
C11_ConstructedState ==
    last[1] = "new" =>
        /\ paused = TRUE
        /\ update_delay = 100
        /\ change_update_delay = 100
        /\ LiveCells(next_grid) = {}
        /\ LiveCells(grid) = { <<2, 1>>, <<3, 2>>, <<1, 3>>, <<2, 3>>, <<3, 3>> }
        /\ Cardinality(LiveCells(grid)) = 5

C11_Witness ==
    /\ last[1] = "new"
    /\ status = "running"
    /\ generation = 0
    /\ edits = 0
    /\ grid[1][2]

\* C12: toggle_pause flips paused and changes nothing else, and no other
\* operation changes paused.
C12_PausedOnlyByTogglePause ==
    [][ /\ (last'[1] = "toggle_pause" /\ KeySpace) =>
               /\ paused' = ~paused
               /\ UNCHANGED << grid, next_grid, update_delay, change_update_delay, status >>
        /\ paused' # paused => (last'[1] = "toggle_pause" /\ KeySpace) ]_vars

\* Paused again after having run, with the delay changed in between.
C12_Witness ==
    /\ last[1] = "toggle_pause"
    /\ paused
    /\ generation = 1
    /\ update_delay > 100

\* C13: the update tick leaves grid and buffer unchanged while paused, and
\* does exactly one update_grid while not paused.
C13_TickAdvancesOnlyWhenRunning ==
    [][ (last'[1] = "update" /\ Update) =>
            IF paused
            THEN UNCHANGED << grid, next_grid, generation >>
            ELSE /\ generation' = generation + 1
                 /\ grid' = update_grid(grid, next_grid)[1]
                 /\ next_grid' = update_grid(grid, next_grid)[2] ]_vars

\* A tick while paused, after the simulation had run for two generations.
C13_Witness ==
    /\ last[1] = "update"
    /\ paused
    /\ generation = 2
    /\ edits = 0

\* C14: clear sets every grid cell to dead and leaves paused, update_delay
\* and delay_step unchanged.
C14_ClearFrame ==
    [][ (last'[1] = "clear" /\ KeyC) =>
            /\ LiveCells(grid') = {}
            /\ UNCHANGED << paused, update_delay, change_update_delay >> ]_vars

C14_Witness ==
    /\ last[1] = "clear"
    /\ LiveCells(grid) = {}
    /\ ~paused
    /\ update_delay > 100
    /\ change_update_delay < 100

\* C15: update_grid leaves paused, update_delay and delay_step unchanged,
\* and afterwards the buffer holds the grid as it was before the call.
C15_AdvanceOnlySwaps ==
    [][ Advance =>
            /\ next_grid' = grid
            /\ UNCHANGED << paused, update_delay, change_update_delay, status >> ]_vars

C15_Witness ==
    /\ last[1] = "update"
    /\ generation = 3
    /\ ~paused
    /\ next_grid # grid
    /\ LiveCells(next_grid) # {}

\* C16 (as claimed): while paused is false, clear and both randomize keys
\* leave every grid cell as it was.
C16_OnlyToggleWhileRunning ==
    [][ ( /\ ~paused
          /\ last'[1] \in { "clear", "randomize", "randomize_sparse" }
          /\ (KeyC \/ KeyP \/ KeyR) ) => grid' = grid ]_vars

\* C16 (amended): clear and both randomize keys are applied while paused is
\* false just as while it is true: clear leaves every cell dead and
\* randomize leaves the drawn outcome.
C16_EditsApplyWhileRunning ==
    [][ ~paused =>
            /\ (last'[1] = "clear" /\ KeyC) => LiveCells(grid') = {}
            /\ (last'[1] = "randomize" /\ KeyP) => grid' \in RandomGrids
            /\ (last'[1] = "randomize_sparse" /\ KeyR) => grid' \in RandomGrids ]_vars

\* The running simulation was cleared after a generation.
C16_Witness ==
    /\ last[1] = "clear"
    /\ ~paused
    /\ generation >= 1
    /\ LiveCells(grid) = {}
    /\ LiveCells(next_grid) # {}

\* C17: with update_grid alone, after 4k generations the live cells are
\* the five seed cells moved by (k mod W, k mod H).
C17_GliderTravelsForever ==
    (edits = 0 /\ generation % 4 = 0) =>
        /\ LiveCells(grid) =
               { << (c[1] + generation \div 4) % GRID_WIDTH,
                    (c[2] + generation \div 4) % GRID_HEIGHT >> : c \in SeedCells }
        /\ Cardinality(LiveCells(grid)) = 5

\* C18: whenever update_delay is above 100 ms it is at least delay_step, so
\* the subtraction in decrease_update_delay cannot underflow, and nothing
\* panics.
C18_SubtractionNeverUnderflows ==
    /\ status # "panicked"
    /\ update_delay > 100 => update_delay >= change_update_delay

\* A decrease whose guard evaluated 110 ms - 100 ms.
C18_Witness ==
    /\ last[1] = "decrease_update_delay"
    /\ update_delay = 110
    /\ change_update_delay = 100
    /\ status = "running"

\* Buffers a grid is advanced with, besides the one the state holds.
BufferSamples == { EmptyGrid, GridOf(Cols \X Rows), GridOf(SeedCells) }

\* C19: the grid after update_grid is the same whatever the buffer held.
C19_AdvanceIgnoresBuffer ==
    [][ Advance =>
            \A b \in BufferSamples : grid' = update_grid(grid, b)[1] ]_vars

\* A grid advanced after an edit that followed earlier swaps, so that the
\* buffer held a generation older than the grid.
C19_Witness ==
    /\ last[1] = "update"
    /\ edits = 1
    /\ generation >= 2
    /\ LiveCells(grid) # {}
    /\ LiveCells(next_grid) # {}

\* C20: a step that takes update_delay from above 100 ms to 100 ms is a
\* reset; after an increase, a decrease gives back the delay before the
\* increase if that was above 100 ms and changes nothing if it was 100 ms.
C20_OnlyResetRestoresDefault ==
    [][ /\ (update_delay > 100 /\ update_delay' = 100) =>
               (last'[1] = "reset_update_delay" /\ KeyRShift)
        /\ (last'[1] = "increase_update_delay" /\ KeyUp) =>
               decrease_update_delay(update_delay', change_update_delay')[1] =
                   IF update_delay > 100 THEN update_delay ELSE update_delay' ]_vars

\* A decrease right after the increase from 100 ms: the delay stays raised.
C20_Witness ==
    /\ last[1] = "decrease_update_delay"
    /\ update_delay = 100 + change_update_delay
    /\ change_update_delay = 30
====
